---- MODULE Spec2Model ----
(***************************************************************************)
(* workspace-bridge-mcp: the project registry (projectLoader.js), the      *)
(* startup load of .workspace-bridge.json, and the tool handlers that      *)
(* resolve a project name and then call the filesystem or git.             *)
(*                                                                         *)
(* The registry is the plain JavaScript object created by                  *)
(* `const projects = {}`: its own properties are the registered projects,  *)
(* in insertion order, and a property read that finds no own property      *)
(* falls back to Object.prototype.                                         *)
(***************************************************************************)
EXTENDS Integers, Sequences, FiniteSets, TLC

VARIABLES
    cwd,                \* process.cwd(): the current project directory
    linkFile,           \* what reading and parsing .workspace-bridge.json yields
    loadPc,             \* position of loadProjects: "start", "reading", "done"
    projects,           \* the registry: own properties in insertion order
    currentProjectName, \* path.basename(cwd), returned by loadProjects
    warned,             \* loadProjects logged its warning
    inv,                \* the tool invocation under observation
    bg,                 \* a concurrent addProject / removeProject invocation
    raced,              \* history: the registry entry of inv.project changed
                        \* while inv was suspended
    search,             \* a searchCommits invocation and the data it handles
    lastAdd,            \* history of a client's session: name and path of its
                        \* latest successful addProject, none once it has
                        \* removed that name
    blame               \* a gitBlame invocation from its arguments on: the
                        \* command it builds, the file blamed, git's output
                        \* and the records parsed from it

loadVars == <<cwd, linkFile, loadPc, currentProjectName, warned>>

vars == <<cwd, linkFile, loadPc, projects, currentProjectName, warned, inv, bg, raced, search,
          lastAdd, blame>>

----------------------------------------------------------------------------
(* Bounds *)

MaxEntries == 2     \* longest "projects" list of a link file

----------------------------------------------------------------------------
(* JavaScript values that flow through the registry and the link file *)

Undefined == [kind |-> "undefined"]
EmptyStr == [kind |-> "emptystr"]
Num == [kind |-> "number"]
Builtin(n) == [kind |-> "builtin", name |-> n]
Path(a, s) == [kind |-> "path", abs |-> a, segs |-> s]

\* JavaScript truthiness of the values above
Truthy(v) == v.kind \notin {"undefined", "emptystr"}

----------------------------------------------------------------------------
(* node's path module, on paths held as segment lists *)

RECURSIVE NormSegs(_, _, _)
\* path.normalize's segment walk: "." is dropped, ".." removes the segment
\* before it; at the root of an absolute path ".." is dropped, and a
\* relative path keeps a leading ".."
NormSegs(acc, rest, isAbs) ==
    IF rest = <<>> THEN acc
    ELSE LET s == Head(rest) IN
         IF s = "." THEN NormSegs(acc, Tail(rest), isAbs)
         ELSE IF s = ".." THEN
              IF acc # <<>> /\ acc[Len(acc)] # ".."
              THEN NormSegs(SubSeq(acc, 1, Len(acc) - 1), Tail(rest), isAbs)
              ELSE IF isAbs THEN NormSegs(acc, Tail(rest), isAbs)
              ELSE NormSegs(Append(acc, s), Tail(rest), isAbs)
         ELSE NormSegs(Append(acc, s), Tail(rest), isAbs)

\* a resolution that normalises the path and leaves a relative one relative
PathResolve_KeepRelative(base, p) ==
    Path(p.abs, NormSegs(<<>>, p.segs, p.abs))

\* path.resolve(base, p) for an absolute base
PathResolve(base, p) ==
    IF p.abs THEN Path(TRUE, NormSegs(<<>>, p.segs, TRUE))
    ELSE Path(TRUE, NormSegs(<<>>, base.segs \o p.segs, TRUE))

\* path.join(root, rel)
PathJoin(root, rel) ==
    Path(root.abs, NormSegs(<<>>, root.segs \o rel.segs, root.abs))

\* path.basename(p)
Basename(p) == IF p.segs = <<>> THEN "" ELSE p.segs[Len(p.segs)]

----------------------------------------------------------------------------
(* The registry object *)

\* property names every object inherits from Object.prototype
ProtoNames == {"toString", "__proto__"}

OwnIndex(reg, n) == {i \in 1..Len(reg) : reg[i].name = n}
HasOwn(reg, n) == OwnIndex(reg, n) # {}

\* reg[n]: the own property, else the inherited one, else undefined
Get(reg, n) ==
    IF HasOwn(reg, n) THEN reg[CHOOSE i \in OwnIndex(reg, n) : TRUE].path
    ELSE IF n \in ProtoNames THEN Builtin(n)
    ELSE Undefined

\* reg[n] = v: "__proto__" is the prototype setter, which ignores a string;
\* an existing key keeps its place, a new key goes last
Put(reg, n, v) ==
    IF n = "__proto__" THEN reg
    ELSE IF HasOwn(reg, n)
         THEN [i \in 1..Len(reg) |-> IF reg[i].name = n THEN [name |-> n, path |-> v] ELSE reg[i]]
         ELSE Append(reg, [name |-> n, path |-> v])

\* delete reg[n]
Delete(reg, n) == SelectSeq(reg, LAMBDA e : e.name # n)

\* Object.keys(reg)
Keys(reg) == [i \in 1..Len(reg) |-> reg[i].name]

KeySet(reg) == {reg[i].name : i \in 1..Len(reg)}

----------------------------------------------------------------------------
(* projectLoader.js *)

UnknownProjectMsg(reg, n) ==
    <<"Unknown project: ", n, ". Available projects: ">>
        \o (IF Len(Keys(reg)) > 0 THEN Keys(reg) ELSE <<"none (use addProject tool first)">>)

getProjectPath(reg, n) ==
    LET root == Get(reg, n) IN
    IF ~Truthy(root)
    THEN [ok |-> FALSE, root |-> Undefined, msg |-> UnknownProjectMsg(reg, n)]
    ELSE [ok |-> TRUE, root |-> root, msg |-> <<>>]

removeProject(reg, n) ==
    IF ~Truthy(Get(reg, n))
    THEN [ok |-> FALSE, reg |-> reg, msg |-> <<"Project '", n, "' not found">>]
    ELSE [ok |-> TRUE, reg |-> Delete(reg, n), msg |-> <<>>]

RECURSIVE LoadEntries(_, _, _)
\* the for loop over config.projects: an entry with a name and a path is
\* stored under its resolved path; reading a property of null throws, and
\* so does path.resolve of a non-string
LoadEntries(reg, dir, items) ==
    IF items = <<>> THEN [reg |-> reg, threw |-> FALSE]
    ELSE LET e == Head(items) IN
         IF e.shape = "null" THEN [reg |-> reg, threw |-> TRUE]
         ELSE IF e.shape = "object" /\ e.name # "" /\ Truthy(e.path)
              THEN IF e.path.kind # "path" THEN [reg |-> reg, threw |-> TRUE]
                   ELSE LoadEntries(Put(reg, e.name, PathResolve(dir, e.path)), dir, Tail(items))
              ELSE LoadEntries(reg, dir, Tail(items))

\* the body of the try block and its catch, given the link file
LoadConfig(reg, dir, lf) ==
    IF lf.kind = "absent" THEN [reg |-> reg, warned |-> FALSE]
    ELSE IF lf.kind \in {"unreadable", "invalid"} THEN [reg |-> reg, warned |-> TRUE]
    ELSE IF lf.shape = "null" THEN [reg |-> reg, warned |-> TRUE]
    ELSE IF lf.shape = "object" /\ lf.projects = "array"
         THEN LET r == LoadEntries(reg, dir, lf.items) IN [reg |-> r.reg, warned |-> r.threw]
         ELSE [reg |-> reg, warned |-> FALSE]

\* addProject storing the path before it looks at what fs.stat answered
addProject_StoreFirst(reg, n, raw, dir, st, m) ==
    IF st = "fail" THEN [ok |-> FALSE, reg |-> reg, msg |-> m]
    ELSE IF st # "dir"
         THEN [ok |-> FALSE, reg |-> Put(reg, n, PathResolve(dir, raw)),
               msg |-> <<"Path is not a directory: ", "<path>">>]
    ELSE [ok |-> TRUE, reg |-> Put(reg, n, PathResolve(dir, raw)), msg |-> <<>>]

\* addProject of projectLoader.js once fs.stat has settled: `st` is "dir",
\* "file" or "fail" (with message m); `dir` is the process's working directory
addProject(reg, n, raw, dir, st, m) ==
    IF st = "fail" THEN [ok |-> FALSE, reg |-> reg, msg |-> m]
    ELSE IF st # "dir" THEN [ok |-> FALSE, reg |-> reg, msg |-> <<"Path is not a directory: ", "<path>">>]
    ELSE [ok |-> TRUE, reg |-> Put(reg, n, PathResolve(dir, raw)), msg |-> <<>>]

----------------------------------------------------------------------------
(* Tool invocations (fileTools.js, gitTools.js, gitHelpers.js) *)

\* An invocation: the tool and its arguments, where it is suspended, the
\* root it resolved on entry, the collaborator calls it has issued so far
\* (operation and the path it was issued against) and, once done, its result.
Invocation(t, n, a, pc, root, calls, ok, msg) ==
    [tool |-> t, project |-> n, arg |-> a, pc |-> pc, root |-> root,
     calls |-> calls, ok |-> ok, msg |-> msg]

Idle == Invocation("none", "", Undefined, "idle", Undefined, <<>>, FALSE, <<>>)

\* A collaborator call and its answer: "pending" until it settles, then
\* what it answered, with the error message m when it failed.
Call(op, target) == [op |-> op, target |-> target, res |-> "pending", m |-> <<>>]

\* The call invocation i awaits has settled.
Answer(i, res, m) ==
    [i EXCEPT !.calls[Len(i.calls)].res = res,
              !.calls[Len(i.calls)].m = IF res = "fail" THEN m ELSE <<>>]

\* The invocation suspends on one more collaborator call.
Await(i, op, target) == [i EXCEPT !.pc = "await", !.calls = Append(@, Call(op, target))]

\* The handler returns its response.
Succeed(i) == [i EXCEPT !.pc = "done", !.ok = TRUE]

\* The handler throws an error with message m.
Throw(i, m) == [i EXCEPT !.pc = "done", !.ok = FALSE, !.msg = m]

LastOp(i) == i.calls[Len(i.calls)].op

\* `throw new Error(`<prefix>${error.message}`)` of a handler's catch block
Wrap(prefix, m) == <<prefix>> \o m

\* path.join(root, rel) throws a TypeError when root is not a string
TypeErrorMsg == <<"The \"path\" argument must be of type string">>

FileTools == {"listFiles", "readFile"}

GitTools == {"getCommitHistory", "searchCommits", "getCommitDetails",
             "getFileHistory", "gitBlame", "getRepositoryInfo", "compareBranches"}

\* the file-system call of listFiles and of readFile
FileOp(t) == IF t = "listFiles" THEN "readdir" ELSE "readFile"

\* the message prefix of each handler's catch block
Prefix(t) ==
    CASE t = "getCommitHistory" -> "Failed to get commit history: "
      [] t = "searchCommits" -> "Failed to search commits: "
      [] t = "getCommitDetails" -> "Failed to get commit details: "
      [] t = "getFileHistory" -> "Failed to get file history: "
      [] t = "gitBlame" -> "Failed to get git blame: "
      [] t = "getRepositoryInfo" -> "Failed to get repository info: "
      [] t = "compareBranches" -> "Failed to compare branches: "
      [] t = "addProject" -> "Failed to add project: "

\* the queries each git handler awaits, in order, after getGitInstance
GitOps(t, searchInDiff) ==
    CASE t = "getCommitHistory" -> <<"log">>
      [] t = "searchCommits" -> IF searchInDiff THEN <<"log", "raw">> ELSE <<"log">>
      [] t = "getCommitDetails" -> <<"log", "show", "raw">>
      [] t = "getFileHistory" -> <<"log">>
      [] t = "gitBlame" -> <<"access", "raw">>
      [] t = "getRepositoryInfo" -> <<"status", "branch", "getRemotes", "tags">>
      [] t = "compareBranches" -> <<"log", "raw">>

\* listFiles and readFile up to their await: resolve, join, issue the call
FileToolStart(t, reg, n, rel) ==
    LET i == Invocation(t, n, rel, "idle", Undefined, <<>>, FALSE, <<>>)
        r == getProjectPath(reg, n)
    IN  IF ~r.ok THEN Throw(i, r.msg)
        ELSE IF r.root.kind # "path" THEN Throw([i EXCEPT !.root = r.root], TypeErrorMsg)
        ELSE Await([i EXCEPT !.root = r.root], FileOp(t), PathJoin(r.root, rel))

\* a file tool that resolves its project again once its call has settled
FileToolFinish_ReResolve(i, reg, res, m) ==
    LET r == getProjectPath(reg, i.project)
        j == Answer(i, res, m)
    IN  IF ~r.ok THEN Throw(j, r.msg)
        ELSE IF res # "ok" THEN Throw(j, m)
        ELSE IF r.root.kind # "path" THEN Throw(j, TypeErrorMsg)
        ELSE Succeed([j EXCEPT !.calls[1].target = PathJoin(r.root, i.arg)])

\* listFiles and readFile after their await: the result, or the
\* collaborator's error as it is
FileToolFinish(i, reg, res, m) ==
    IF res = "ok" THEN Succeed(Answer(i, res, m)) ELSE Throw(Answer(i, res, m), m)

\* the addProject handler up to the await of fs.stat
AddStart(n, raw, dir) ==
    Await(Invocation("addProject", n, raw, "idle", Undefined, <<>>, FALSE, <<>>),
          "stat", PathResolve(dir, raw))

\* the addProject handler after fs.stat has settled
AddFinish(i, reg, dir, res, m) ==
    LET r == addProject(reg, i.project, i.arg, dir, res, m)
        j == Answer(i, res, m)
    IN  IF r.ok THEN [inv |-> Succeed(j), reg |-> r.reg]
        ELSE [inv |-> Throw(j, Wrap(Prefix("addProject"), r.msg)), reg |-> r.reg]

\* the removeProject handler: it has no catch block
RemoveRun(reg, n) ==
    LET i == Invocation("removeProject", n, Undefined, "idle", Undefined, <<>>, FALSE, <<>>)
        r == removeProject(reg, n)
    IN  IF r.ok THEN [inv |-> Succeed(i), reg |-> r.reg]
        ELSE [inv |-> Throw(i, r.msg), reg |-> r.reg]

\* Object.entries(projects), the list the listProjects handler reports
projectList(reg) == [k \in 1..Len(reg) |-> <<reg[k].name, reg[k].path>>]

\* the listProjects handler
ListRun == Succeed(Invocation("listProjects", "", Undefined, "idle", Undefined, <<>>, FALSE, <<>>))

\* a git handler up to the await inside getGitInstance: resolve, construct
\* the client (`made` is whether simpleGit(root) returned or threw m), issue
\* checkIsRepo
GitStart(t, reg, n, a, made, m) ==
    LET i == Invocation(t, n, a, "idle", Undefined, <<>>, FALSE, <<>>)
        r == getProjectPath(reg, n)
    IN  IF ~r.ok THEN Throw(i, Wrap(Prefix(t), r.msg))
        ELSE LET j == Answer([i EXCEPT !.root = r.root, !.calls = <<Call("simpleGit", r.root)>>],
                             IF made THEN "ok" ELSE "fail", m)
             IN  IF ~made THEN Throw(j, Wrap(Prefix(t), m))
                 ELSE Await(j, "checkIsRepo", r.root)

\* the queries of invocation i that have settled, checkIsRepo aside
GitDone(i) == Len(SelectSeq(i.calls, LAMBDA c : c.op \notin {"simpleGit", "checkIsRepo"}))

\* issue the next query of the handler, or return when none is left
GitIssue(i, k) ==
    LET ops == GitOps(i.tool, i.tool = "searchCommits" /\ i.arg = TRUE) IN
    IF k > Len(ops) THEN Succeed(i) ELSE Await(i, ops[k], i.root)

\* gitBlame, lines 719-724: after getGitInstance the handler resolves the
\* project a second time and checks the file under that root
BlameAfterRepoCheck(i, reg) ==
    LET r == getProjectPath(reg, i.project) IN
    IF ~r.ok THEN Throw(i, Wrap(Prefix(i.tool), r.msg))
    ELSE IF r.root.kind # "path" THEN Throw(i, Wrap(Prefix(i.tool), TypeErrorMsg))
    ELSE Await(i, "access", PathJoin(r.root, i.arg))

\* a git handler that goes on to its queries whatever checkIsRepo answered
GitContinue_IgnoreRepoCheck(i0, reg, res, m) ==
    LET i == Answer(i0, res, m)
        op == LastOp(i)
        p == Prefix(i.tool)
    IN  IF res = "fail" THEN
            IF op = "access"
            THEN Throw(i, Wrap(p, <<"File '", "<file>", "' not found in project '", i.project, "'">>))
            ELSE Throw(i, Wrap(p, m))
        ELSE IF op = "checkIsRepo" THEN
            IF i.tool = "gitBlame" THEN BlameAfterRepoCheck(i, reg)
            ELSE GitIssue(i, 1)
        ELSE IF i.tool = "getCommitDetails" /\ op = "log" /\ res = "empty"
            THEN Throw(i, Wrap(p, <<"Commit '", "<hash>", "' not found">>))
        ELSE GitIssue(i, GitDone(i) + 1)

\* a git handler resumed by the call it awaited: res is "ok", "fail" (with
\* message m), "false" (checkIsRepo) or "empty" (log found no commit)
GitContinue(i0, reg, res, m) ==
    LET i == Answer(i0, res, m)
        op == LastOp(i)
        p == Prefix(i.tool)
    IN  IF res = "fail" THEN
            IF op = "access"
            THEN Throw(i, Wrap(p, <<"File '", "<file>", "' not found in project '", i.project, "'">>))
            ELSE Throw(i, Wrap(p, m))
        ELSE IF op = "checkIsRepo" THEN
            IF res = "false"
            THEN Throw(i, Wrap(p, <<"Project '", i.project, "' at ", "<root>", " is not a git repository">>))
            ELSE IF i.tool = "gitBlame" THEN BlameAfterRepoCheck(i, reg)
            ELSE GitIssue(i, 1)
        ELSE IF i.tool = "getCommitDetails" /\ op = "log" /\ res = "empty"
            THEN Throw(i, Wrap(p, <<"Commit '", "<hash>", "' not found">>))
        ELSE GitIssue(i, GitDone(i) + 1)

\* what a collaborator call can answer
Results(t, op) ==
    CASE op = "stat" -> {"dir", "file", "fail"}
      [] op = "checkIsRepo" -> {"ok", "false", "fail"}
      [] op = "log" /\ t = "getCommitDetails" -> {"ok", "empty", "fail"}
      [] OTHER -> {"ok", "fail"}

\* messages of collaborator failures
CollabMsgs == {<<"ENOENT: no such file or directory">>, <<"EACCES: permission denied">>}

----------------------------------------------------------------------------
(* Inputs of the load *)

App == Path(TRUE, <<"repo", "app">>)
Lib == Path(TRUE, <<"repo", "lib">>)
ProtoDir == Path(TRUE, <<"repo", "__proto__">>)
RelLib == Path(FALSE, <<"..", "lib">>)
Web == Path(TRUE, <<"repo", "web">>)

Cwds == {App, ProtoDir}

EntryNames == {"", "lib", "app", "__proto__"}
EntryPaths == {Undefined, Num, RelLib, Lib, Web}

Entry(s, n, p) == [shape |-> s, name |-> n, path |-> p]

Entries ==
    {Entry("null", "", Undefined), Entry("scalar", "", Undefined)}
        \cup {Entry("object", n, p) : n \in EntryNames, p \in EntryPaths}

RECURSIVE SeqsUpTo(_, _)
SeqsUpTo(S, n) ==
    IF n = 0 THEN {<<>>}
    ELSE LET shorter == SeqsUpTo(S, n - 1) IN
         shorter \cup {Append(s, x) : s \in shorter, x \in S}

File(k, s, p, it) == [kind |-> k, shape |-> s, projects |-> p, items |-> it]

LinkFiles ==
    {File(k, "none", "none", <<>>) : k \in {"absent", "unreadable", "invalid"}}
        \cup {File("json", "null", "none", <<>>), File("json", "scalar", "none", <<>>),
              File("json", "object", "missing", <<>>), File("json", "object", "notarray", <<>>)}
        \cup {File("json", "object", "array", it) : it \in SeqsUpTo(Entries, MaxEntries)}

----------------------------------------------------------------------------
(* searchCommits: the data it handles *)

MaxCommits == 2     \* most commits a log or pickaxe query answers with
MaxCount == 2       \* largest maxCount argument

Min(a, b) == IF a < b THEN a ELSE b

Hashes == {"a1", "b2", "c3"}

\* the subject of a commit, held as its parts between "|" characters
Subject(h) == IF h = "b2" THEN <<"fix a", "b">> ELSE <<"fix bug">>

\* the body of a commit; the commit "c3" has none
Body(h) == IF h = "c3" THEN "" ELSE "details"

\* a commit as simple-git's log reports it
LogCommit(h) ==
    [hash |-> h, author_name |-> "dev", author_email |-> "dev@example.com",
     date |-> "2024-01-01T00:00:00+00:00", message |-> Subject(h), body |-> Body(h)]

\* a line of `git log --pretty=format:%H|%an|%ae|%ad|%s --date=iso`, held
\* as what line.split('|') makes of it
DiffLine(h) == <<h, "dev", "dev@example.com", "2024-01-01 00:00:00 +0000">> \o Subject(h)

\* a line that line.trim() empties
BlankLine == <<"">>

formatCommit(c) ==
    [hash |-> c.hash, author |-> c.author_name, email |-> c.author_email,
     date |-> c.date, message |-> c.message,
     body |-> IF c.body # "" THEN c.body ELSE ""]

\* lines 569-579: one pickaxe line to a commit entry
ParseDiffLine(line) ==
    [hash |-> line[1], author |-> line[2], email |-> line[3], date |-> line[4],
     message |-> SubSeq(line, 5, Len(line)), body |-> "(found in code changes)"]

\* log.all.map(formatCommit)
FormatAll(q) == [k \in 1..Len(q) |-> formatCommit(q[k])]

\* the answers of the two queries for the hashes hs, in order
LogAnswer(hs) == [k \in 1..Len(hs) |-> LogCommit(hs[k])]
DiffAnswer(hs) == [k \in 1..Len(hs) |-> DiffLine(hs[k])]

\* lines 566-579: split, drop blank lines, parse
ParseDiffResults(lines) ==
    LET kept == SelectSeq(lines, LAMBDA l : l # BlankLine) IN
    [k \in 1..Len(kept) |-> ParseDiffLine(kept[k])]

RECURSIVE MapByHash(_, _)
\* `new Map(all.map(c => [c.hash, c])).values()`: a key met again keeps its
\* place and takes the later value
MapByHash(acc, rest) ==
    IF rest = <<>> THEN acc
    ELSE LET c == Head(rest)
             at == {k \in 1..Len(acc) : acc[k].hash = c.hash}
         IN  IF at # {}
             THEN MapByHash([k \in 1..Len(acc) |-> IF k \in at THEN c ELSE acc[k]], Tail(rest))
             ELSE MapByHash(Append(acc, c), Tail(rest))

\* the merge with the pickaxe entries put first
MergeCommits_DiffFirst(commits, diffCommits, maxCount) ==
    LET unique == MapByHash(<<>>, diffCommits \o commits) IN
    SubSeq(unique, 1, Min(maxCount, Len(unique)))

\* lines 581-586: merge, deduplicate by hash, truncate
MergeCommits(commits, diffCommits, maxCount) ==
    LET unique == MapByHash(<<>>, commits \o diffCommits) IN
    SubSeq(unique, 1, Min(maxCount, Len(unique)))

\* sequences without repetition over S, of length at most n
RECURSIVE DistinctSeqs(_, _)
DistinctSeqs(S, n) ==
    IF n = 0 THEN {<<>>}
    ELSE LET shorter == DistinctSeqs(S, n - 1) IN
         shorter \cup UNION {{Append(q, x) : x \in S \ {q[k] : k \in 1..Len(q)}} : q \in shorter}

\* no gitBlame under way
BlameIdle ==
    [pc |-> "idle", startLine |-> Undefined, endLine |-> Undefined, args |-> <<>>,
     source |-> <<>>, ok |-> FALSE, msg |-> <<>>, lines |-> <<>>]

\* no addProject on record
NoAdd == [name |-> "", path |-> Undefined]

SearchIdle ==
    [pc |-> "idle", searchInDiff |-> FALSE, maxCount |-> 0,
     logAll |-> <<>>, diffLines |-> <<>>, commits |-> <<>>]

----------------------------------------------------------------------------
(* Startup: loadProjects(process.cwd()) *)

InitLoad ==
    /\ cwd \in Cwds
    /\ linkFile \in LinkFiles
    /\ loadPc = "start"
    /\ projects = <<>>
    /\ currentProjectName = ""
    /\ warned = FALSE
    /\ inv = Idle
    /\ bg = Idle
    /\ raced = FALSE
    /\ search = SearchIdle
    /\ lastAdd = NoAdd
    /\ blame = BlameIdle

\* lines 17-26: register the current project, then await fs.readFile
LoadStart ==
    /\ loadPc = "start"
    /\ loadPc' = "reading"
    /\ currentProjectName' = Basename(cwd)
    /\ projects' = Put(<<>>, Basename(cwd), cwd)
    /\ UNCHANGED <<cwd, linkFile, warned, inv, bg, raced, search, lastAdd, blame>>

\* lines 26-45: the read settles; parse, loop, catch, return
LoadFinish ==
    /\ loadPc = "reading"
    /\ LET r == LoadConfig(projects, cwd, linkFile) IN
        /\ projects' = r.reg
        /\ warned' = r.warned
    /\ loadPc' = "done"
    /\ UNCHANGED <<cwd, linkFile, currentProjectName, inv, bg, raced, search, lastAdd, blame>>

NextLoad == LoadStart \/ LoadFinish

SpecLoad == InitLoad /\ [][NextLoad]_vars

----------------------------------------------------------------------------
(* Serving: tool invocations after startup *)

\* loadProjects as a whole
loadProjects(dir, lf) == LoadConfig(Put(<<>>, Basename(dir), dir), dir, lf)

ReadMe == Path(FALSE, <<"README.md">>)
NoDir == Path(FALSE, <<>>)

\* project names the clients send
Names == {"app", "toString", "__proto__"}

\* paths the clients send to addProject
RawPaths == {RelLib, Web}

Init ==
    /\ cwd = App
    /\ linkFile = File("absent", "none", "none", <<>>)
    /\ loadPc = "done"
    /\ currentProjectName = Basename(cwd)
    /\ projects = loadProjects(cwd, linkFile).reg
    /\ warned = loadProjects(cwd, linkFile).warned
    /\ inv = Idle
    /\ bg = Idle
    /\ raced = FALSE
    /\ search = SearchIdle
    /\ lastAdd = NoAdd
    /\ blame = BlameIdle

InvokeAddProject ==
    /\ inv.pc = "idle"
    /\ \E n \in Names, p \in RawPaths : inv' = AddStart(n, p, cwd)
    /\ UNCHANGED <<loadVars, projects, bg, raced, search, lastAdd, blame>>

InvokeRemoveProject ==
    /\ inv.pc = "idle"
    /\ \E n \in Names :
        /\ inv' = RemoveRun(projects, n).inv
        /\ projects' = RemoveRun(projects, n).reg
    /\ UNCHANGED <<loadVars, bg, raced, search, lastAdd, blame>>

InvokeListProjects ==
    /\ inv.pc = "idle"
    /\ inv' = ListRun
    /\ UNCHANGED <<loadVars, projects, bg, raced, search, lastAdd, blame>>

InvokeFileTool ==
    /\ inv.pc = "idle"
    /\ \E t \in FileTools, n \in Names :
        inv' = FileToolStart(t, projects, n, IF t = "listFiles" THEN NoDir ELSE ReadMe)
    /\ UNCHANGED <<loadVars, projects, bg, raced, search, lastAdd, blame>>

InvokeGitTool ==
    /\ inv.pc = "idle"
    /\ \E t \in GitTools, n \in Names, made \in BOOLEAN, m \in CollabMsgs :
        \E a \in (IF t = "searchCommits" THEN BOOLEAN
                  ELSE IF t = "gitBlame" THEN {ReadMe} ELSE {Undefined}) :
            inv' = GitStart(t, projects, n, a, made, m)
    /\ UNCHANGED <<loadVars, projects, bg, raced, search, lastAdd, blame>>

\* the collaborator call an invocation awaits settles and the handler runs
\* on to its next await or to its end
Settle ==
    /\ inv.pc = "await"
    /\ \E res \in Results(inv.tool, LastOp(inv)), m \in CollabMsgs :
        IF inv.tool = "addProject"
        THEN /\ inv' = AddFinish(inv, projects, cwd, res, m).inv
             /\ projects' = AddFinish(inv, projects, cwd, res, m).reg
        ELSE /\ inv' = IF inv.tool \in FileTools THEN FileToolFinish(inv, projects, res, m)
                       ELSE GitContinue(inv, projects, res, m)
             /\ projects' = projects
    /\ UNCHANGED <<loadVars, bg, raced, search, lastAdd, blame>>

\* the response has gone out; the next request comes in
Respond ==
    /\ inv.pc = "done"
    /\ inv' = Idle
    /\ raced' = FALSE
    /\ UNCHANGED <<loadVars, projects, bg, search, lastAdd, blame>>

\* history: a registry write that changes the entry of the project a
\* suspended invocation was given
Races(reg) == raced \/ (inv.pc = "await" /\ Get(reg, inv.project) # Get(projects, inv.project))

\* A second client's addProject and removeProject, interleaved with the
\* invocation above at its awaits. Only these two handlers write the
\* registry, and the handlers share nothing else, so no other concurrent
\* invocation can change what the invocation above does.
BgAddProject ==
    /\ bg.pc = "idle"
    /\ \E n \in Names, p \in RawPaths : bg' = AddStart(n, p, cwd)
    /\ UNCHANGED <<loadVars, projects, inv, raced, search, lastAdd, blame>>

BgSettle ==
    /\ bg.pc = "await"
    /\ \E res \in Results(bg.tool, LastOp(bg)), m \in CollabMsgs :
        /\ projects' = AddFinish(bg, projects, cwd, res, m).reg
        /\ raced' = Races(AddFinish(bg, projects, cwd, res, m).reg)
    /\ bg' = Idle
    /\ UNCHANGED <<loadVars, inv, search, lastAdd, blame>>

BgRemoveProject ==
    /\ \E n \in Names :
        /\ projects' = RemoveRun(projects, n).reg
        /\ raced' = Races(RemoveRun(projects, n).reg)
    /\ UNCHANGED <<loadVars, inv, bg, search, lastAdd, blame>>

Next ==
    \/ InvokeAddProject
    \/ InvokeRemoveProject
    \/ InvokeListProjects
    \/ InvokeFileTool
    \/ InvokeGitTool
    \/ Settle
    \/ Respond
    \/ BgAddProject
    \/ BgSettle
    \/ BgRemoveProject

Spec == Init /\ [][Next]_vars

----------------------------------------------------------------------------
(* searchCommits on a git repository: lines 535-602 *)

InitSearch == Init

\* lines 535-547: the repository check has passed; the handler awaits the
\* message search
SearchStart ==
    /\ search.pc = "idle"
    /\ \E d \in BOOLEAN, k \in 1..MaxCount :
        search' = [SearchIdle EXCEPT !.pc = "log", !.searchInDiff = d, !.maxCount = k]
    /\ UNCHANGED <<loadVars, projects, inv, bg, raced, lastAdd, blame>>

\* lines 547-565: git.log answers with at most maxCount commits; the
\* handler returns them, or awaits the pickaxe search
SearchLogSettled ==
    /\ search.pc = "log"
    /\ \E hs \in DistinctSeqs(Hashes, Min(MaxCommits, search.maxCount)) :
        search' = [search EXCEPT !.logAll = LogAnswer(hs),
                                 !.commits = FormatAll(LogAnswer(hs)),
                                 !.pc = IF search.searchInDiff THEN "raw" ELSE "done"]
    /\ UNCHANGED <<loadVars, projects, inv, bg, raced, lastAdd, blame>>

\* lines 565-602: git.raw answers with at most maxCount lines, a blank
\* line possibly among them; parse, merge, return
SearchRawSettled ==
    /\ search.pc = "raw"
    /\ \E hs \in DistinctSeqs(Hashes, Min(MaxCommits, search.maxCount)), blank \in BOOLEAN :
        LET lines == DiffAnswer(hs) \o (IF blank THEN <<BlankLine>> ELSE <<>>) IN
        search' = [search EXCEPT !.diffLines = lines,
                                 !.commits = MergeCommits(search.commits, ParseDiffResults(lines),
                                                          search.maxCount),
                                 !.pc = "done"]
    /\ UNCHANGED <<loadVars, projects, inv, bg, raced, lastAdd, blame>>

SearchRespond ==
    /\ search.pc = "done"
    /\ search' = SearchIdle
    /\ UNCHANGED <<loadVars, projects, inv, bg, raced, lastAdd, blame>>

NextSearch == SearchStart \/ SearchLogSettled \/ SearchRawSettled \/ SearchRespond

SpecSearch == InitSearch /\ [][NextSearch]_vars

----------------------------------------------------------------------------
(* A session: startup, then one client calling the registry tools one      *)
(* after the other, each call answered before the next is sent             *)

\* link files of the sessions: none, or a well-formed one of at most one entry
SessionLinkFiles ==
    {File("absent", "none", "none", <<>>), File("json", "object", "array", <<>>)}
        \cup {File("json", "object", "array", <<Entry("object", n, p)>>) :
                 n \in EntryNames \ {""}, p \in {RelLib, Lib}}

InitSession ==
    /\ InitLoad
    /\ linkFile \in SessionLinkFiles

\* history: the latest successful addProject after invocation j has ended
AddedBy(j) ==
    IF j.tool = "addProject" /\ j.ok THEN [name |-> j.project, path |-> j.arg]
    ELSE IF j.tool = "removeProject" /\ j.ok /\ j.project = lastAdd.name THEN NoAdd
    ELSE lastAdd

\* the addProject handler from call to response, fs.stat answering in between
CallAddProject ==
    /\ loadPc = "done"
    /\ \E n \in Names, p \in RawPaths, res \in Results("addProject", "stat"), m \in CollabMsgs :
        LET r == AddFinish(AddStart(n, p, cwd), projects, cwd, res, m) IN
        /\ inv' = r.inv
        /\ projects' = r.reg
        /\ lastAdd' = AddedBy(r.inv)
    /\ UNCHANGED <<loadVars, bg, raced, search, blame>>

CallRemoveProject ==
    /\ loadPc = "done"
    /\ \E n \in Names :
        /\ inv' = RemoveRun(projects, n).inv
        /\ projects' = RemoveRun(projects, n).reg
        /\ lastAdd' = AddedBy(RemoveRun(projects, n).inv)
    /\ UNCHANGED <<loadVars, bg, raced, search, blame>>

CallListProjects ==
    /\ loadPc = "done"
    /\ inv' = ListRun
    /\ UNCHANGED <<loadVars, projects, bg, raced, search, lastAdd, blame>>

NextSession ==
    \/ LoadStart
    \/ LoadFinish
    \/ CallAddProject
    \/ CallRemoveProject
    \/ CallListProjects

SpecSession == InitSession /\ [][NextSession]_vars

----------------------------------------------------------------------------
(* gitBlame: the command it builds and the parse of git's output *)

\* lines of the blamed file, at most
MaxLines == 2

\* a number, a string, and the text toISOString gives for a time in ms
Number(n) == [kind |-> "number", val |-> n]
Str(x) == [kind |-> "string", chars |-> x]
IsoDate(ms) == [kind |-> "string", iso |-> ms]

\* JavaScript truthiness of an optional number
TruthyNumber(v) == v.kind = "number" /\ v.val # 0

\* what the clients send as startLine and endLine
LineArgs == {Undefined} \cup {Number(n) : n \in 0..MaxLines}

\* the arguments of git.raw: the -L range is there when startLine and
\* endLine are both truthy
BlameArgs(startLine, endLine, file) ==
    [flags |-> <<"blame", "--line-porcelain">>,
     range |-> IF TruthyNumber(startLine) /\ TruthyNumber(endLine)
               THEN <<startLine.val, endLine.val>> ELSE <<>>,
     file |-> file]

\* the commits of the blamed file
BlameCommits ==
    {[hash |-> "a1", author |-> "ann", time |-> 1, summary |-> "init"],
     [hash |-> "b2", author |-> "", time |-> 2, summary |-> "author bob"]}

\* a line of the file as git attributes it: its commit, its number in that
\* commit and in the file, its text
SourceLine(c, o, f, t) == [commit |-> c, orig |-> o, final |-> f, content |-> t]

RECURSIVE Attributions(_)
\* the attributions of a file of n lines
Attributions(n) ==
    IF n = 0 THEN {<<>>}
    ELSE {Append(a, SourceLine(c, o, n, t)) :
            a \in Attributions(n - 1), c \in BlameCommits, o \in {n, n + 1}, t \in {"", "x"}}

\* a decimal numeral and parseInt of it
Dec(n) == [dec |-> n]
ParseInt(d) == d.dec

\* a line of git's output: what it starts with, and the rest (for a commit
\* header, the fields that split(' ') gives)
OutLine(k, v) == [key |-> k, val |-> v]

\* --line-porcelain for one line of the file
Porcelain(l) ==
    <<OutLine("hash40", <<l.commit.hash, Dec(l.orig), Dec(l.final)>>),
      OutLine("author ", <<l.commit.author>>),
      OutLine("author-mail ", <<"<>">>),
      OutLine("author-time ", <<Dec(l.commit.time)>>),
      OutLine("committer ", <<l.commit.author>>),
      OutLine("summary ", <<l.commit.summary>>),
      OutLine("filename ", <<"README.md">>),
      OutLine("\t", <<l.content>>)>>

RECURSIVE PorcelainAll(_)
\* git's output for the lines blamed, split at the line ends: the text ends
\* with a line end, so an empty line comes last
PorcelainAll(ls) ==
    IF ls = <<>> THEN <<OutLine("", <<>>)>>
    ELSE Porcelain(Head(ls)) \o PorcelainAll(Tail(ls))

\* git blame: the lines of the range, or all of them; a range outside the
\* file is an error
GitBlame(args, source) ==
    IF args.range = <<>> THEN [ok |-> TRUE, blamed |-> source]
    ELSE IF 1 <= args.range[1] /\ args.range[1] <= args.range[2] /\ args.range[2] <= Len(source)
         THEN [ok |-> TRUE, blamed |-> SubSeq(source, args.range[1], args.range[2])]
         ELSE [ok |-> FALSE, blamed |-> <<>>]

\* the working record of the parse
BlameRecord(set, h, n, a, d, s, c) ==
    [set |-> set, hash |-> h, lineNum |-> n, author |-> a, date |-> d, summary |-> s, content |-> c]

\* currentCommit = null
NoCommit == BlameRecord(FALSE, Undefined, Undefined, Undefined, Undefined, Undefined, Undefined)

\* the working record a commit header opens, its line number read from the
\* second field of the header
HeaderCommit_OriginalLine(line) ==
    BlameRecord(TRUE, Str(line.val[1]), Number(ParseInt(line.val[2])),
                Undefined, Undefined, Undefined, Undefined)

\* the working record a commit header opens: const [hash, , lineNum]
HeaderCommit(line) ==
    BlameRecord(TRUE, Str(line.val[1]), Number(ParseInt(line.val[3])),
                Undefined, Undefined, Undefined, Undefined)

RECURSIVE ParseBlame(_, _, _)
\* the parse loop over the lines of the output
ParseBlame(lines, currentCommit, blameData) ==
    IF lines = <<>> THEN blameData
    ELSE LET line == Head(lines) IN
         IF line.key = "hash40"
         THEN ParseBlame(Tail(lines), HeaderCommit(line), blameData)
         ELSE IF line.key = "author " /\ currentCommit.set
         THEN ParseBlame(Tail(lines), [currentCommit EXCEPT !.author = Str(line.val[1])], blameData)
         ELSE IF line.key = "author-time " /\ currentCommit.set
         THEN ParseBlame(Tail(lines),
                         [currentCommit EXCEPT !.date = IsoDate(ParseInt(line.val[1]) * 1000)],
                         blameData)
         ELSE IF line.key = "summary " /\ currentCommit.set
         THEN ParseBlame(Tail(lines), [currentCommit EXCEPT !.summary = Str(line.val[1])], blameData)
         ELSE IF line.key = "\t" /\ currentCommit.set
         THEN ParseBlame(Tail(lines), NoCommit,
                         Append(blameData, [currentCommit EXCEPT !.content = Str(line.val[1])]))
         ELSE ParseBlame(Tail(lines), currentCommit, blameData)

InitBlame == Init

\* the handler, once the file is known to exist, up to the await of git.raw
BlameStart ==
    /\ blame.pc = "idle"
    /\ \E s \in LineArgs, e \in LineArgs, n \in 1..MaxLines :
        \E src \in Attributions(n) :
            blame' = [BlameIdle EXCEPT !.pc = "raw", !.startLine = s, !.endLine = e,
                                       !.args = BlameArgs(s, e, "README.md"), !.source = src]
    /\ UNCHANGED <<loadVars, projects, inv, bg, raced, search, lastAdd>>

\* git.raw settles: a failure is rethrown with the tool's prefix, an output
\* is parsed and the records are returned
BlameRawSettled ==
    /\ blame.pc = "raw"
    /\ \E res \in Results("gitBlame", "raw"), m \in CollabMsgs :
        LET out == GitBlame(blame.args, blame.source) IN
        blame' = IF res = "fail" \/ ~out.ok
                 THEN [blame EXCEPT !.pc = "done", !.ok = FALSE,
                                    !.msg = Wrap(Prefix("gitBlame"), m)]
                 ELSE [blame EXCEPT !.pc = "done", !.ok = TRUE,
                                    !.lines = ParseBlame(PorcelainAll(out.blamed), NoCommit, <<>>)]
    /\ UNCHANGED <<loadVars, projects, inv, bg, raced, search, lastAdd>>

NextBlame == BlameStart \/ BlameRawSettled

SpecBlame == InitBlame /\ [][NextBlame]_vars

----------------------------------------------------------------------------
(* Properties *)

\* the message of getProjectPath's error, bare or behind a handler's prefix
IsUnknownProject(msg) ==
    \E k \in 1..Min(2, Len(msg)) : msg[k] = "Unknown project: "

Elems(q) == {q[k] : k \in 1..Len(q)}

\* C1: in every registry state, resolving a name that is not registered
\* fails with the 'Unknown project' error, whose message lists every
\* registered name, or says that none is registered; and so does a tool
\* that takes the name as its project.
C1_UnregisteredNameFails ==
    \A n \in Names :
        ~HasOwn(projects, n) =>
            LET r == getProjectPath(projects, n)
                t == FileToolStart("readFile", projects, n, ReadMe)
            IN  /\ ~r.ok
                /\ SubSeq(r.msg, 1, 2) = <<"Unknown project: ", n>>
                /\ KeySet(projects) \subseteq Elems(SubSeq(r.msg, 4, Len(r.msg)))
                /\ (projects = <<>> => r.msg[4] = "none (use addProject tool first)")
                /\ t.pc = "done" /\ ~t.ok /\ t.msg = r.msg

\* C2: an invocation that has failed with the 'Unknown project' error has
\* issued no filesystem or git call.
C2_NotFoundBeforeAnyCall ==
    (inv.pc = "done" /\ ~inv.ok /\ IsUnknownProject(inv.msg)) => inv.calls = <<>>

\* C3: a removeProject that succeeds leaves its name unresolvable, and a
\* removeProject of a name that is not registered fails with the 'not
\* found' error and leaves the registry as it was.
C3_RemoveThenResolveFails ==
    [][(inv.pc = "idle" /\ inv'.tool = "removeProject") =>
          /\ inv'.ok => ~getProjectPath(projects', inv'.project).ok
          /\ ~HasOwn(projects, inv'.project) =>
                /\ ~inv'.ok
                /\ inv'.msg = <<"Project '", inv'.project, "' not found">>
                /\ projects' = projects]_vars

\* C4: when reading or parsing the link file fails otherwise than by the
\* file being absent, the load ends with no linked project: the registry
\* holds no entry but the current project under the current directory
\* (that this entry is there is C5).
C4_FailedLoadKeepsOnlyCurrent ==
    (loadPc = "done" /\ warned) =>
        \A k \in 1..Len(projects) :
            projects[k] = [name |-> Basename(cwd), path |-> cwd]

\* C5: whatever reading the link file yields, the load returns and the
\* registry has an entry under the base name of the current directory.
C5_LoadRegistersCurrent ==
    loadPc = "done" =>
        \E k \in 1..Len(projects) : projects[k].name = Basename(cwd)

\* C6: readFile and listFiles issue one filesystem call, against the root
\* they resolved on entry joined with their argument; whatever happens to
\* the registry entry while they are suspended, the call stays as issued
\* and the invocation does not end with the 'Unknown project' error.
C6_FileCallUsesResolvedPath ==
    (inv.tool \in FileTools /\ inv.calls # <<>>) =>
        /\ Len(inv.calls) = 1
        /\ inv.calls[1].op = FileOp(inv.tool)
        /\ inv.root.kind = "path"
        /\ inv.calls[1].target = PathJoin(inv.root, inv.arg)
        /\ (inv.pc = "await" /\ ~raced) => inv.root = Get(projects, inv.project)
        /\ inv.pc = "done" => ~IsUnknownProject(inv.msg)

\* C6 witness: a file tool has completed its call although the entry it
\* resolved was removed or overwritten while it was suspended.
C6_Witness ==
    /\ inv.tool \in FileTools
    /\ inv.pc = "done"
    /\ inv.ok
    /\ raced
    /\ Get(projects, inv.project) # inv.root

\* C7: a step of an invocation that changes the registry is the successful
\* end of that invocation, so an invocation that ends in failure has
\* written nothing.
C7_FailureWritesNothing ==
    [][/\ (inv' # inv /\ inv'.pc = "done" /\ ~inv'.ok) => projects' = projects
       /\ (inv' # inv /\ projects' # projects) => (inv'.pc = "done" /\ inv'.ok)]_vars

\* C7 witness: an addProject has failed because its path is not a directory.
C7_Witness ==
    /\ inv.tool = "addProject"
    /\ inv.pc = "done"
    /\ ~inv.ok
    /\ inv.calls[1].res = "file"

\* C8: when a collaborator call of an invocation has failed with message
\* m, it is the last call of the invocation, which has failed with a
\* message made of one prefix followed by m.
C8_CollaboratorFailureIsPrefixed ==
    \A k \in 1..Len(inv.calls) :
        inv.calls[k].res = "fail" =>
            /\ k = Len(inv.calls)
            /\ inv.pc = "done"
            /\ ~inv.ok
            /\ Len(inv.msg) = Len(inv.calls[k].m) + 1
            /\ Tail(inv.msg) = inv.calls[k].m

\* hashes of the message search and of the pickaxe search
LogHashes == {search.logAll[k].hash : k \in 1..Len(search.logAll)}
DiffHashes == {l[1] : l \in {x \in Elems(search.diffLines) : x # BlankLine}}

\* C9: with searchInDiff, searchCommits returns no hash twice, and for a
\* hash that both searches found it returns the message-search entry.
C9_MessageEntryWins ==
    (search.pc = "done" /\ search.searchInDiff) =>
        /\ \A a, b \in 1..Len(search.commits) :
              search.commits[a].hash = search.commits[b].hash => a = b
        /\ \A k \in 1..Len(search.commits) :
              search.commits[k].hash \in LogHashes \cap DiffHashes =>
                  search.commits[k] = formatCommit(LogCommit(search.commits[k].hash))

\* the absolute form of the paths the clients send
AbsoluteForm(p) == IF p = RelLib THEN Lib ELSE p

\* C10: when addProject(x, p) completes successfully, x resolves to the
\* absolute form of p.
C10_AddThenResolve ==
    [][(inv.tool = "addProject" /\ inv.pc = "await" /\ inv'.pc = "done" /\ inv'.ok) =>
          getProjectPath(projects', inv.project)
              = [ok |-> TRUE, root |-> AbsoluteForm(inv.arg), msg |-> <<>>]]_vars

\* C11: when an addProject completes successfully for the name of the
\* latest successful addProject, with another directory, the registry holds
\* one entry for that name and the name resolves to the second directory.
C11_SecondAddWins ==
    [][(/\ inv'.tool = "addProject" /\ inv'.pc = "done" /\ inv'.ok
        /\ lastAdd.name = inv'.project
        /\ AbsoluteForm(lastAdd.path) # AbsoluteForm(inv'.arg)) =>
          /\ Cardinality(OwnIndex(projects', inv'.project)) = 1
          /\ getProjectPath(projects', inv'.project)
                = [ok |-> TRUE, root |-> AbsoluteForm(inv'.arg), msg |-> <<>>]]_vars

\* a link file that reads and parses into a projects array of objects whose
\* path, when there is one, is a string
WellFormed(lf) ==
    /\ lf.kind = "json" /\ lf.shape = "object" /\ lf.projects = "array"
    /\ \A k \in 1..Len(lf.items) :
        lf.items[k].shape = "object" /\ lf.items[k].path.kind \in {"undefined", "path"}

\* an entry with a non-empty name and a path
Complete(e) == e.name # "" /\ e.path.kind = "path"

\* the path a link-file entry stands for: itself when absolute, else the
\* current directory followed by it, normalised
ResolvedAgainst(dir, p) == IF p.abs THEN p ELSE Path(TRUE, NormSegs(<<>>, dir.segs \o p.segs, TRUE))

\* the last complete entry of the name
LastFor(items, n) ==
    LET ks == {k \in 1..Len(items) : Complete(items[k]) /\ items[k].name = n} IN
    items[CHOOSE k \in ks : \A j \in ks : j <= k]

\* C12: after the load of a well-formed link file, every complete entry's
\* name maps to the path of the last complete entry of that name, resolved
\* against the current directory when relative; the registry holds nothing
\* else besides the current project, so incomplete entries add nothing and
\* stop nothing.
C12_LoadStoresEntries ==
    (loadPc = "done" /\ WellFormed(linkFile)) =>
        /\ \A k \in 1..Len(linkFile.items) :
            Complete(linkFile.items[k]) =>
                Get(projects, linkFile.items[k].name)
                    = ResolvedAgainst(cwd, LastFor(linkFile.items, linkFile.items[k].name).path)
        /\ \A j \in 1..Len(projects) :
            \/ projects[j].name = Basename(cwd)
            \/ \E k \in 1..Len(linkFile.items) :
                Complete(linkFile.items[k]) /\ linkFile.items[k].name = projects[j].name

\* the record the caller is to get for a line of the file
RecordOf(l) ==
    BlameRecord(TRUE, Str(l.commit.hash), Number(l.final), Str(l.commit.author),
                IsoDate(l.commit.time * 1000), Str(l.commit.summary), Str(l.content))

\* the lines git blamed in the invocation
Blamed == GitBlame(blame.args, blame.source).blamed

\* C13: when gitBlame has parsed git's output for k lines of the file, it
\* returns k records, in the order of the lines, the k-th holding the hash,
\* line number, author, date, summary and text of the k-th line and nothing
\* of another line.
C13_OneRecordPerLine ==
    (blame.pc = "done" /\ blame.ok) =>
        /\ Len(blame.lines) = Len(Blamed)
        /\ \A k \in 1..Len(Blamed) : blame.lines[k] = RecordOf(Blamed[k])

C13_Witness ==
    /\ blame.pc = "done" /\ blame.ok
    /\ Len(blame.lines) = 2
    /\ blame.lines[1].hash # blame.lines[2].hash
    /\ blame.lines[2].author = Str("")
    /\ blame.source[1].orig # blame.source[1].final

\* a bound the caller supplied
Supplied(v) == v # Undefined

\* C14: the command carries the range startLine..endLine when the caller
\* supplied both bounds, and no range otherwise.
C14_RangeIffBothSupplied ==
    blame.pc # "idle" =>
        blame.args.range = IF Supplied(blame.startLine) /\ Supplied(blame.endLine)
                           THEN <<blame.startLine.val, blame.endLine.val>> ELSE <<>>

\* what searchCommits returns without searchInDiff for the message search
\* of the invocation
MessageOnly == FormatAll(search.logAll)

NotARepo ==
    \E k \in 1..Len(inv.calls) : inv.calls[k].op = "checkIsRepo" /\ inv.calls[k].res = "false"

\* C16: a git tool whose repository check answers that the project's
\* directory is not a git repository has failed with the message saying so
\* and has issued no call but the construction of the client and the check;
\* listFiles and readFile issue their one file-system call, never the
\* check, and succeed when that call does.
C16_NotARepoFailsBeforeQueries ==
    /\ NotARepo =>
        /\ inv.tool \in GitTools
        /\ inv.pc = "done" /\ ~inv.ok
        /\ inv.msg = <<Prefix(inv.tool), "Project '", inv.project, "' at ", "<root>",
                       " is not a git repository">>
        /\ \A k \in 1..Len(inv.calls) : inv.calls[k].op \in {"simpleGit", "checkIsRepo"}
    /\ inv.tool \in FileTools =>
        /\ \A k \in 1..Len(inv.calls) : inv.calls[k].op = FileOp(inv.tool)
        /\ (inv.pc = "done" /\ inv.calls # <<>> /\ inv.calls[1].res = "ok") => inv.ok

\* C16 witness: getRepositoryInfo on the registered project 'app' has met a
\* directory that is not a git repository.
C16_Witness ==
    /\ inv.tool = "getRepositoryInfo"
    /\ inv.project = "app"
    /\ HasOwn(projects, "app")
    /\ NotARepo
    /\ inv.pc = "done"

\* C17: every path the registry holds is an absolute path: that of the
\* current project, those of the link file and those addProject stored.
C17_StoredPathsAbsolute ==
    \A k \in 1..Len(projects) :
        projects[k].path.kind = "path" /\ projects[k].path.abs

\* C17 witness: the registry holds the current project, a link-file entry
\* given by a relative path and a project added by a relative path.
C17_Witness ==
    /\ loadPc = "done"
    /\ linkFile.items = <<Entry("object", "lib", RelLib)>>
    /\ Get(projects, "lib") = Lib
    /\ HasOwn(projects, Basename(cwd))
    /\ lastAdd = [name |-> "toString", path |-> RelLib]
    /\ Get(projects, "toString") = Lib

\* C18: the file check of a gitBlame invocation is issued under the root
\* its git client was constructed on.
C18_BlameSingleRoot ==
    inv.tool = "gitBlame" =>
        \A k \in 1..Len(inv.calls) :
            inv.calls[k].op = "access" =>
                /\ inv.calls[1].target.kind = "path"
                /\ inv.calls[k].target = PathJoin(inv.calls[1].target, inv.arg)

\* the names listProjects reports
Listed == {projectList(projects)[k][1] : k \in 1..Len(projects)}

\* C19: once the server is up, resolving a name succeeds exactly when
\* listProjects reports the name, and so does removing it.
C19_LookupRemoveListAgree ==
    loadPc = "done" =>
        \A n \in Names \cup EntryNames :
            /\ getProjectPath(projects, n).ok <=> n \in Listed
            /\ removeProject(projects, n).ok <=> n \in Listed

\* C20: after the load, the name of the current project resolves to the
\* current directory, whatever the link file holds.
C20_CurrentProjectKeepsPath ==
    loadPc = "done" =>
        getProjectPath(projects, currentProjectName) = [ok |-> TRUE, root |-> cwd, msg |-> <<>>]

====
